---- MODULE Spec2Model ----
(***************************************************************************)
(* mkfs (src/fat/mkfs.c): builds a FAT file-system image in a mapped file. *)
(* The image is one byte array: block 0 is the super block, the FAT starts *)
(* at byte 512, and every store of the program is a store into that array, *)
(* so a block index that lands in the FAT aliases the FAT.                 *)
(***************************************************************************)
EXTENDS Integers, Sequences, FiniteSets, TLC

\* ------------------------------------------------------------------ bounds
\* Small images: every block count 0..MaxBlocks is tried.
MaxBlocks == 8
\* Small images: 0..MaxFiles file arguments, each of any size in FileSizes.
MaxFiles == 2

\* ------------------------------------------------- constants of the program
BlockSize == 512
HeaderSize == 8
EntrySize == 16
NameSize == 12
WordSize == 4
FileTag == 1
RootTag == 2
\* offsets of the fields of Super in block 0
NBlocksAddr == 4
AvailAddr == 8
RootAddr == 12
\* "F439"
Magic == <<70, 52, 51, 57>>
Slash == 47

\* ------------------------------------------------------------------ inputs
\* File lengths around the two block boundaries (504 and 504 + 512).
FileSizes == {0, 201, 504, 505, 1016}
\* What read() may return short of the requested count.
ShortReads == {200, 503}
\* argv[3..]: "a", "d/bb", "x/abcdefghijklm" (13-byte basename), "abcdefghijkl"
ArgPaths ==
  << <<97>>,
     <<100, 47, 98, 98>>,
     <<120, 47, 97, 98, 99, 100, 101, 102, 103, 104, 105, 106, 107, 108, 109>>,
     <<97, 98, 99, 100, 101, 102, 103, 104, 105, 106, 107, 108>> >>
ArgPath(k) == ArgPaths[((k - 1) % Len(ArgPaths)) + 1]
\* byte p (0-based) of the k-th input file: never 0, so a lost byte shows
Content(k, p) == ((p + 31 * k) % 251) + 1
\* entries that fit in the root block after its header
DirCapacity == (BlockSize - HeaderSize) \div EntrySize
\* FAT entries per FAT block
FatPerBlock == BlockSize \div WordSize

VARIABLES
  nBlocks,            \* atoi(argv[2])
  files,              \* argv[3..]: sequence of [path, size]
  pc,                 \* position of the program
  mapLength,          \* size of the mapped image in bytes
  mem,                \* the image: address -> byte, for the bytes stored so far
  fi,                 \* the FAT initialisation loop's i
  rootData,           \* main's rootData, as an address in the image
  i,                  \* the file loop's i
  x,                  \* main's x: what oneFile returned
  fpos,               \* oneFile's fd: the offset of the next byte read() returns
  startBlockIndex, currentBlockIndex, leftInBlock, blockOffset, totalSize,
  allocated,          \* history: the indices getBlock has returned, in order
  chains,             \* history: per file, the blocks allocated while packing it
  heads,              \* history: the value oneFile returned for each file
  calls,              \* history: the system calls made on the image, in order
  prior               \* the image file's bytes before the build (unlisted: 0)

vars == <<nBlocks, files, pc, mapLength, mem, fi, rootData, i, x, fpos, startBlockIndex,
          currentBlockIndex, leftInBlock, blockOffset, totalSize, allocated, chains,
          heads, calls, prior>>

nFiles == Len(files)

\* ------------------------------------------------------------------ memory
\* mem holds the image's bytes that differ from what ftruncate's extension
\* gives: a byte not in it reads as 0.
Byte(m, a) == IF a \in DOMAIN m THEN m[a] ELSE 0

\* Store the bytes bs at address a; a byte outside the image is not in the image.
\* (old, b and new name the values of m, bs and the addresses stored to, so
\* that each is worked out once.)
Store(m, a, bs) ==
  CHOOSE after \in
    {[q \in (DOMAIN old) \cup new |-> IF q \in new THEN b[q - a + 1] ELSE old[q]] :
       <<old, b, new>> \in
         {<<m, bs, {q \in a .. (a + Len(bs) - 1) : q >= 0 /\ q < mapLength}>>}} : TRUE

\* Whether a store of n bytes at a leaves the mapped image.
OutOfImage(a, n) == n > 0 /\ a + n > mapLength

\* uint32_t, little endian (every value the bounded inputs produce is below 2^31)
Le32(v) ==
  <<v % 256, (v \div 256) % 256, (v \div 65536) % 256, (v \div 16777216) % 256>>
Get32(m, a) ==
  Byte(m, a) + 256 * Byte(m, a + 1) + 65536 * Byte(m, a + 2)
    + 16777216 * Byte(m, a + 3)
Put32(m, a, v) == Store(m, a, Le32(v))

toPtr(idx, offset) == idx * BlockSize + offset
FatAddr(idx) == BlockSize + idx * WordSize
Fat(m, idx) == Get32(m, FatAddr(idx))
Avail(m) == Get32(m, AvailAddr)
Root(m) == Get32(m, RootAddr)

fatBlocks(n) == (n * WordSize + (BlockSize - 1)) \div BlockSize
lastAvail(n) == 1 + fatBlocks(n)

\* ---------------------------------------------------------------- getBlock
GetBlockIdx(m) == Avail(m)
\* getBlock without its last store: fat[idx] is not zeroed
GetBlockMem_NoClear(m) == Put32(m, AvailAddr, Fat(m, GetBlockIdx(m)))
\* getBlock without its first store: avail stays
GetBlockMem_NoAdvance(m) == Put32(m, FatAddr(GetBlockIdx(m)), 0)
GetBlockMem(m) ==
  LET idx == GetBlockIdx(m)
  IN  Put32(Put32(m, AvailAddr, Fat(m, idx)), FatAddr(idx), 0)

\* ---------------------------------------------------------------- Init
RECURSIVE SeqsUpTo(_, _)
SeqsUpTo(S, n) ==
  IF n = 0 THEN {<<>>}
  ELSE LET shorter == SeqsUpTo(S, n - 1)
       IN  shorter \cup {Append(s, e) : s \in {t \in shorter : Len(t) = n - 1}, e \in S}

ArgFiles(sizes) == [k \in 1 .. Len(sizes) |-> [path |-> ArgPath(k), size |-> sizes[k]]]

\* every small image with every short list of files
SmallConfigs ==
  {[n |-> n, f |-> ArgFiles(s)] : n \in 0 .. MaxBlocks, s \in SeqsUpTo(FileSizes, MaxFiles)}
\* one more file than the root block has room for, each file empty
DirConfigs ==
  {[n |-> n, f |-> ArgFiles([k \in 1 .. c |-> 0])] :
     n \in {DirCapacity + 4, DirCapacity + 5}, c \in {DirCapacity, DirCapacity + 1}}
\* images whose FAT takes one block and two blocks
BigFatConfigs ==
  {[n |-> n, f |-> ArgFiles(<<201>>)] : n \in {FatPerBlock, FatPerBlock + 1, FatPerBlock + 2}}
Configs == SmallConfigs \cup DirConfigs \cup BigFatConfigs

\* main has not run
Fresh ==
  /\ pc = "main"
  /\ mapLength = 0
  /\ mem = <<>>
  /\ fi = 0
  /\ rootData = 0
  /\ i = 0
  /\ x = 0
  /\ fpos = 0
  /\ startBlockIndex = 0 /\ currentBlockIndex = 0 /\ leftInBlock = 0
  /\ blockOffset = 0 /\ totalSize = 0
  /\ allocated = <<>>
  /\ chains = <<>>
  /\ heads = <<>>
  /\ calls = <<>>

\* the image file does not exist yet (or holds zeros)
Init ==
  /\ \E c \in Configs : nBlocks = c.n /\ files = c.f
  /\ prior = <<>>
  /\ Fresh

\* images left by an earlier use of the file: the FAT block of a 2-block
\* build with one file (fat[0] = 2, fat[1] = 16), and FAT blocks whose third
\* entry is 1 and 2
StaleImages ==
  {FatAddr(0) :> RootTag @@ FatAddr(1) :> EntrySize, FatAddr(2) :> 1, FatAddr(2) :> 2}
\* the image file exists and holds such bytes
InitStale ==
  /\ \E c \in Configs : nBlocks = c.n /\ files = c.f
  /\ prior \in StaleImages
  /\ Fresh

oneFileLocals == <<fpos, startBlockIndex, currentBlockIndex, leftInBlock, blockOffset, totalSize>>
config == <<nBlocks, files, mapLength, prior>>
mainLocals == <<fi, rootData, i, x>>
history == <<allocated, chains, heads, calls>>

\* ---------------------------------------------------------------- main
\* argc < 4: usage
MainUsage ==
  /\ pc = "main" /\ nFiles = 0
  /\ pc' = "usage"
  /\ UNCHANGED <<config, mem, mainLocals, oneFileLocals, history>>

MainArgs ==
  /\ pc = "main" /\ nFiles > 0
  /\ pc' = "open"
  /\ UNCHANGED <<config, mem, mainLocals, oneFileLocals, history>>

\* open, ftruncate or mmap fails; mmap of length 0 always does
MainImageFail ==
  /\ pc = "open"
  /\ \E done \in 0 .. 2 : calls' = SubSeq(<<"open", "ftruncate">>, 1, done)
  /\ pc' = "imgfail"
  /\ UNCHANGED <<config, mem, mainLocals, oneFileLocals, allocated, chains, heads>>

\* open has no O_TRUNC and ftruncate keeps the bytes below the new length
Kept(old, length) == [a \in {q \in DOMAIN old : q < length} |-> old[a]]

\* open(O_CREAT | O_RDWR), ftruncate(mapLength), mmap(MAP_SHARED)
MainMap ==
  /\ pc = "open" /\ nBlocks > 0
  /\ mapLength' = nBlocks * BlockSize
  /\ mem' = Kept(prior, nBlocks * BlockSize)
  /\ calls' = <<"open", "ftruncate", "mmap">>
  /\ pc' = "super"
  /\ UNCHANGED <<nBlocks, files, prior, mainLocals, oneFileLocals, allocated, chains, heads>>

\* magic, nBlocks, avail; the loop's i starts at super->avail
MainSuper ==
  /\ pc = "super"
  /\ mem' = Put32(Put32(Store(mem, 0, Magic), NBlocksAddr, nBlocks), AvailAddr, nBlocks - 1)
  /\ fi' = nBlocks - 1
  /\ pc' = "fatinit"
  /\ UNCHANGED <<config, rootData, i, x, oneFileLocals, history>>

\* the loop's bound moved by one: one entry short, one entry too many
FatInitCond_Short(k, last) == k > last + 1
FatInitCond_Long(k, last) == k >= last
FatInitCond(k, last) == k > last
\* a wrong link stored: to the block itself, to the block above
FatInitValue_Self(k) == k
FatInitValue_Up(k) == k + 1
\* a wrong link: every other block
FatInitValue_Skip(k) == k - 2
FatInitValue(k) == k - 1

FatInitStep ==
  /\ pc = "fatinit" /\ FatInitCond(fi, lastAvail(nBlocks))
  /\ mem' = Put32(mem, FatAddr(fi), FatInitValue(fi))
  /\ fi' = fi - 1
  /\ UNCHANGED <<config, pc, rootData, i, x, oneFileLocals, history>>

FatInitDone ==
  /\ pc = "fatinit" /\ ~FatInitCond(fi, lastAvail(nBlocks))
  /\ pc' = "root"
  /\ UNCHANGED <<config, mem, mainLocals, oneFileLocals, history>>

\* a loop that never chains a block
NeedBlock_Never(left) == left < 0
\* oneFile's loop: the current block has no room left
NeedBlock(left) == left = 0

\* getBlock finds super->avail == 0: "disk is full", exit
DiskFull ==
  /\ pc \in {"root", "alloc"} \/ (pc = "loop" /\ NeedBlock(leftInBlock))
  /\ GetBlockIdx(mem) = 0
  /\ pc' = "diskfull"
  /\ UNCHANGED <<config, mem, mainLocals, oneFileLocals, history>>

\* super->root = getBlock(); the root block's header; rootData
MainRoot ==
  /\ pc = "root" /\ GetBlockIdx(mem) # 0
  /\ LET idx == GetBlockIdx(mem)
         m1 == Put32(GetBlockMem(mem), RootAddr, idx)
         m2 == Put32(m1, toPtr(Root(m1), 0), RootTag)
     IN  /\ mem' = Put32(m2, toPtr(Root(m1), WordSize), nFiles * EntrySize)
         /\ rootData' = toPtr(Root(m1), HeaderSize)
         /\ allocated' = Append(allocated, idx)
  /\ i' = 0
  /\ pc' = "files"
  /\ UNCHANGED <<config, fi, x, oneFileLocals, chains, heads, calls>>

\* ---------------------------------------------------------------- oneFile
\* i < nFiles: oneFile(fileNames[i]) opens the source
OneFileOpen ==
  /\ pc = "files" /\ i < nFiles
  /\ fpos' = 0
  /\ pc' = "alloc"
  /\ UNCHANGED <<config, mem, mainLocals, startBlockIndex, currentBlockIndex,
                 leftInBlock, blockOffset, totalSize, history>>

OneFileOpenFail ==
  /\ pc = "files" /\ i < nFiles
  /\ pc' = "srcopen"
  /\ UNCHANGED <<config, mem, mainLocals, oneFileLocals, history>>

HeadCapacity == BlockSize - HeaderSize

\* the head block and its tag
OneFileStart ==
  /\ pc = "alloc" /\ GetBlockIdx(mem) # 0
  /\ LET idx == GetBlockIdx(mem)
     IN  /\ mem' = Put32(GetBlockMem(mem), toPtr(idx, 0), FileTag)
         /\ startBlockIndex' = idx
         /\ currentBlockIndex' = idx
         /\ allocated' = Append(allocated, idx)
         /\ chains' = Append(chains, <<idx>>)
  /\ leftInBlock' = HeadCapacity
  /\ blockOffset' = HeaderSize
  /\ totalSize' = 0
  /\ pc' = "loop"
  /\ UNCHANGED <<config, mainLocals, fpos, heads, calls>>

\* fileMetaData is toPtr's result cast to uint32_t and back: where a pointer is
\* wider than 32 bits the store of the tag goes through a truncated address
OneFileFault ==
  /\ pc = "alloc" /\ GetBlockIdx(mem) # 0
  /\ mem' = GetBlockMem(mem)
  /\ allocated' = Append(allocated, GetBlockIdx(mem))
  /\ chains' = Append(chains, <<GetBlockIdx(mem)>>)
  /\ pc' = "fault"
  /\ UNCHANGED <<config, mainLocals, oneFileLocals, heads, calls>>

\* a wrong link: the new block's own entry instead of the current block's
LinkAddr_New(cur, b) == FatAddr(b)
LinkAddr(cur, b) == FatAddr(cur)

\* the block is full: chain a new one
OneFileGrow ==
  /\ pc = "loop" /\ NeedBlock(leftInBlock) /\ GetBlockIdx(mem) # 0
  /\ LET b == GetBlockIdx(mem)
     IN  /\ mem' = Put32(GetBlockMem(mem), LinkAddr(currentBlockIndex, b), b)
         /\ currentBlockIndex' = b
         /\ allocated' = Append(allocated, b)
         /\ chains' = [chains EXCEPT ![Len(chains)] = Append(@, b)]
  /\ blockOffset' = 0
  /\ leftInBlock' = BlockSize
  /\ UNCHANGED <<config, pc, mainLocals, fpos, startBlockIndex, totalSize, heads, calls>>

\* what read(fd, p, count) may return with rest bytes left in the source
ReadSizes(count, rest) ==
  LET most == IF count < rest THEN count ELSE rest
  IN  {n \in ShortReads \cup {most} : 0 < n /\ n <= most}
\* read(fd, p, count) returns 0: nothing is asked for or nothing is left
ReadEnds(count, rest) == count = 0 \/ rest = 0
\* a wrong total: the size of the last read instead of the sum
NewTotal_Last(total, n) == n
NewTotal(total, n) == total + n

OneFileRead ==
  /\ pc = "loop" /\ ~NeedBlock(leftInBlock)
  /\ \E n \in ReadSizes(leftInBlock, files[i + 1].size - fpos) :
       /\ mem' = Store(mem, toPtr(currentBlockIndex, blockOffset),
                       [j \in 1 .. n |-> Content(i + 1, fpos + j - 1)])
       /\ fpos' = fpos + n
       /\ blockOffset' = blockOffset + n
       /\ leftInBlock' = leftInBlock - n
       /\ totalSize' = NewTotal(totalSize, n)
  /\ UNCHANGED <<config, pc, mainLocals, startBlockIndex, currentBlockIndex, history>>

OneFileReadFail ==
  /\ pc = "loop" /\ ~NeedBlock(leftInBlock)
  /\ pc' = "readerr"
  /\ UNCHANGED <<config, mem, mainLocals, oneFileLocals, history>>

\* read returns 0: the length goes into the head block, oneFile returns
OneFileEof ==
  /\ pc = "loop" /\ ~NeedBlock(leftInBlock)
  /\ ReadEnds(leftInBlock, files[i + 1].size - fpos)
  /\ mem' = Put32(mem, toPtr(startBlockIndex, WordSize), totalSize)
  /\ x' = startBlockIndex
  /\ heads' = Append(heads, startBlockIndex)
  /\ pc' = "entry"
  /\ UNCHANGED <<config, fi, rootData, i, oneFileLocals, allocated, chains, calls>>

\* ---------------------------------------------------------------- directory
Max(S) == CHOOSE a \in S : \A b \in S : b <= a
\* the name after the last '/'
Basename(path) ==
  LET at == {j \in 1 .. Len(path) : path[j] = Slash}
  IN  IF at = {} THEN path ELSE SubSeq(path, Max(at) + 1, Len(path))
\* strncpy(dest, src, n) stores n bytes: src, then zeros
Strncpy(src, n) == [j \in 1 .. n |-> IF j <= Len(src) THEN src[j] ELSE 0]
\* a wrong slot: the one after the file's
EntryAddr_Next(base, k) == base + (k + 1) * EntrySize
EntryAddr(base, k) == base + k * EntrySize
EntryMem(m, dest, name, head) == Put32(Store(m, dest, name), dest + NameSize, head)

\* the i-th directory entry: name, then start block. Bytes stored past the end
\* of the image, in the rest of the last page, never reach the file.
MainEntry ==
  /\ pc = "entry"
  /\ mem' = EntryMem(mem, EntryAddr(rootData, i),
                     Strncpy(Basename(files[i + 1].path), NameSize), x)
  /\ i' = i + 1
  /\ pc' = "files"
  /\ UNCHANGED <<config, fi, rootData, x, oneFileLocals, history>>

\* basename is not declared, so it returns int: where a pointer is wider than
\* that, strncpy reads through a truncated address
MainBasenameFault ==
  /\ pc = "entry"
  /\ pc' = "fault"
  /\ UNCHANGED <<config, mem, mainLocals, oneFileLocals, history>>

\* the entry runs past the mapping: the store past the last mapped page faults
MainEntryOverrun ==
  /\ pc = "entry"
  /\ OutOfImage(EntryAddr(rootData, i), EntrySize)
  /\ LET dest == EntryAddr(rootData, i)
         name == Strncpy(Basename(files[i + 1].path), NameSize)
     IN  mem' = IF OutOfImage(dest, NameSize) THEN Store(mem, dest, name)
                ELSE EntryMem(mem, dest, name, x)
  /\ pc' = "fault"
  /\ UNCHANGED <<config, mainLocals, oneFileLocals, history>>

\* the calls main makes on the image once the files are packed
Finalise == <<"munmap">>

\* munmap, return 0
MainFinish ==
  /\ pc = "files" /\ i >= nFiles
  /\ calls' = calls \o Finalise
  /\ pc' = "done"
  /\ UNCHANGED <<config, mem, mainLocals, oneFileLocals, allocated, chains, heads>>

Next ==
  \/ MainUsage \/ MainArgs \/ MainImageFail \/ MainMap \/ MainSuper
  \/ FatInitStep \/ FatInitDone \/ DiskFull \/ MainRoot
  \/ OneFileOpen \/ OneFileOpenFail \/ OneFileStart \/ OneFileFault
  \/ OneFileGrow \/ OneFileRead \/ OneFileReadFail \/ OneFileEof
  \/ MainEntry \/ MainBasenameFault \/ MainEntryOverrun \/ MainFinish

Spec == Init /\ [][Next]_vars
\* the process keeps running: every call it makes returns
SpecFair == Spec /\ WF_vars(Next)
\* a build over an image file that already holds bytes
SpecStale == InitStale /\ [][Next]_vars

\* ---------------------------------------------------------------- observers
\* the image is mapped and the free list built
Built == pc \notin {"main", "open", "super", "fatinit", "usage", "imgfail"}
\* the program is about to call getBlock
AtGetBlock == pc \in {"root", "alloc"} \/ (pc = "loop" /\ NeedBlock(leftInBlock))

\* the indices met from idx by fat[idx] lookups, until 0 or until fuel of them
\* are met (the walk is split in halves to keep the evaluation shallow)
RECURSIVE Walk(_, _, _)
Walk(m, idx, fuel) ==
  IF idx = 0 \/ fuel = 0 THEN <<>>
  ELSE IF fuel = 1 THEN <<idx>>
  ELSE LET half == fuel \div 2
           first == Walk(m, idx, half)
       IN  IF Len(first) < half THEN first
           ELSE first \o Walk(m, Fat(m, first[half]), fuel - half)
FreeChain(m) == Walk(m, Avail(m), nBlocks + 1)
FileChain(m, head) == <<head>> \o Walk(m, Fat(m, head), nBlocks + 1)
Range(s) == {s[k] : k \in 1 .. Len(s)}
StrictlyDecreasing(s) == \A k \in 1 .. Len(s) - 1 : s[k] > s[k + 1]
\* the walk reached 0 (it did not run out of fuel inside a cycle)
EndsAtZero(m, s) == Len(s) <= nBlocks /\ (s # <<>> => Fat(m, s[Len(s)]) = 0)
\* hi, hi - 1, ..., lo
Desc(lo, hi) == [k \in 1 .. (IF hi >= lo THEN hi - lo + 1 ELSE 0) |-> hi - k + 1]

Min(a, b) == IF a < b THEN a ELSE b
\* the block's header fields
TagOf(m, b) == Get32(m, toPtr(b, 0))
LengthOf(m, b) == Get32(m, toPtr(b, WordSize))
\* some byte of the block's length field has been stored
LengthStored(m, b) ==
  \E a \in toPtr(b, WordSize) .. (toPtr(b, HeaderSize) - 1) : a \in DOMAIN m
\* some content byte of the k-th file's blocks has been stored
ContentStored(m, k) ==
  \E a \in DOMAIN m :
    /\ (a \div BlockSize) \in Range(chains[k])
    /\ (a \div BlockSize) = chains[k][1] => (a % BlockSize) >= HeaderSize
\* the k-th input file's bytes
Source(k) == [j \in 1 .. files[k].size |-> Content(k, j - 1)]
\* what a reader of the image recovers from the chain that starts at head:
\* bytes 8..511 of the head block, then bytes 0..511 of each next block, cut
\* to the head block's length field (-1 where the chain has no block for it)
ReadBack(m, head) ==
  LET chain == FileChain(m, head)
      at(p) == IF p < HeadCapacity THEN <<1, HeaderSize + p>>
               ELSE <<2 + ((p - HeadCapacity) \div BlockSize),
                      (p - HeadCapacity) % BlockSize>>
  IN  [j \in 1 .. LengthOf(m, head) |->
        IF at(j - 1)[1] <= Len(chain)
        THEN Byte(m, toPtr(chain[at(j - 1)[1]], at(j - 1)[2]))
        ELSE -1]
\* the k-th (from 0) directory entry of the image
DirEntry(m, k) == toPtr(Root(m), HeaderSize) + k * EntrySize
DirHead(m, k) == Get32(m, DirEntry(m, k) + NameSize)

\* ----------------------------------------------------------------------- C1
\* the block count the claim gives a file of s bytes
ClaimBlocks(s) ==
  IF s <= HeadCapacity THEN 1
  ELSE 1 + ((s - HeadCapacity + BlockSize - 1) \div BlockSize)
\* the block count the packing loop produces
LoopBlocks(s) ==
  IF s < HeadCapacity THEN 1 ELSE 2 + ((s - HeadCapacity) \div BlockSize)

\* C1: packing a file of S bytes allocates 1 block if S <= 504 and
\* 1 + ceil((S - 504) / 512) blocks otherwise, whatever the reads returned
\* (504 bytes: 1 block; 505 bytes: 2 blocks; no empty trailing block).
C1_BlockCount ==
  \A k \in 1 .. Len(heads) : Len(chains[k]) = ClaimBlocks(files[k].size)

\* What the loop does instead: it allocates at the top of the iteration, before
\* the read that reports end of input, so a file that ends exactly on a block
\* boundary gets one more, empty, block.
C1_LoopBlockCount ==
  \A k \in 1 .. Len(heads) : Len(chains[k]) = LoopBlocks(files[k].size)

\* ----------------------------------------------------------------------- C2
\* C2 as stated: allocation fails with the disk full after exactly
\* N - 1 - lastAvail successful allocations.
C2_Original ==
  (pc = "diskfull" /\ nBlocks >= 3) =>
    Len(allocated) = nBlocks - 1 - lastAvail(nBlocks)

\* C2 amended: on an image of N >= 3 blocks allocation succeeds exactly
\* N - lastAvail times (block lastAvail itself is handed out last) and then
\* fails; it fails exactly when avail is 0: avail is 0 once N - lastAvail
\* blocks are out and not before.
C2_Amended ==
  /\ pc = "diskfull" => Avail(mem) = 0
  /\ (Built /\ nBlocks >= 3) =>
       /\ Len(allocated) <= nBlocks - lastAvail(nBlocks)
       /\ (Avail(mem) = 0 <=> Len(allocated) = nBlocks - lastAvail(nBlocks))
C2_Witness ==
  /\ pc = "diskfull" /\ nBlocks >= 5
  /\ Len(allocated) = nBlocks - lastAvail(nBlocks)

C4_NoMetadataBlock ==
  /\ \A k \in 1 .. Len(allocated) : allocated[k] >= lastAvail(nBlocks)
  /\ pc \notin {"main", "open", "super"} =>
       \A idx \in Range(FreeChain(mem)) : idx >= lastAvail(nBlocks)
\* The same for images of at least 3 blocks.
C4_FromThreeBlocks == nBlocks >= 3 => C4_NoMetadataBlock

\* ----------------------------------------------------------------------- C5
\* C5: after a successful build every file is recovered from the image: the
\* chain from the head block its directory entry records, cut to the recorded
\* length, is the source file's bytes.
C5_RoundTrip ==
  pc = "done" =>
    \A k \in 1 .. nFiles :
      /\ ~OutOfImage(DirEntry(mem, k - 1), EntrySize)
      /\ ReadBack(mem, DirHead(mem, k - 1)) = Source(k)
\* The same while the directory fits its block.
C5_WithinCapacity == nFiles <= DirCapacity => C5_RoundTrip

\* ----------------------------------------------------------------------- C6
\* C6: a packed file's head block has tag 1 and length S; the tag is stored
\* before any content, the length only once the source has reported its end.
C6_Header ==
  /\ \A k \in 1 .. Len(heads) :
       /\ heads[k] = chains[k][1]
       /\ TagOf(mem, heads[k]) = FileTag
       /\ LengthOf(mem, heads[k]) = files[k].size
  /\ \A k \in 1 .. Len(chains) :
       /\ ContentStored(mem, k) => TagOf(mem, chains[k][1]) = FileTag
       /\ LengthStored(mem, chains[k][1]) => k <= Len(heads)
  /\ pc = "loop" =>
       /\ TagOf(mem, startBlockIndex) = FileTag
       /\ ~LengthStored(mem, startBlockIndex)
C6_Witness ==
  /\ pc = "entry" /\ files[i + 1].size = 2 * BlockSize - HeaderSize
  /\ LengthOf(mem, x) = 2 * BlockSize - HeaderSize
  /\ TagOf(mem, x) = FileTag

\* ----------------------------------------------------------------------- C7
\* C7: after a successful build super.root is a block with tag 2 and length
\* nFiles * 16, and its i-th entry holds the i-th argument's basename cut to
\* 12 bytes and the head block packing the i-th file returned.
C7_Directory ==
  pc = "done" =>
    /\ TagOf(mem, Root(mem)) = RootTag
    /\ LengthOf(mem, Root(mem)) = nFiles * EntrySize
    /\ \A k \in 0 .. nFiles - 1 :
         LET base == Basename(files[k + 1].path)
         IN  /\ ~OutOfImage(DirEntry(mem, k), EntrySize)
             /\ \A j \in 1 .. Min(Len(base), NameSize) :
                  Byte(mem, DirEntry(mem, k) + j - 1) = base[j]
             /\ DirHead(mem, k) = heads[k + 1]
\* The same while the directory fits its block.
C7_WithinCapacity == nFiles <= DirCapacity => C7_Directory

\* ----------------------------------------------------------------------- C8
\* the bytes of the word at a
WordBytes(a) == a .. (a + WordSize - 1)
\* C8: wherever the build calls getBlock with avail # 0, the call sets avail
\* to the old fat[avail], sets fat[old avail] to 0, returns the old avail and
\* changes no other byte of the image (no other FAT entry, no other super
\* block field, no data block byte); a call with avail = 0 changes nothing.
C8_GetBlockFrame ==
  /\ (AtGetBlock /\ Avail(mem) # 0) =>
       LET idx == Avail(mem)
           after == GetBlockMem(mem)
       IN  /\ GetBlockIdx(mem) = idx
           /\ Avail(after) = Fat(mem, idx)
           /\ Fat(after, idx) = 0
           /\ \A a \in 0 .. (mapLength - 1) :
                a \notin (WordBytes(AvailAddr) \cup WordBytes(FatAddr(idx)))
                  => Byte(after, a) = Byte(mem, a)
  /\ pc = "diskfull" => Avail(mem) = 0
C8_FailFrame ==
  [][pc' = "diskfull" => (Avail(mem) = 0 /\ mem' = mem /\ allocated' = allocated)]_vars
C8_Frame == []C8_GetBlockFrame /\ C8_FailFrame
C8_Witness ==
  /\ AtGetBlock /\ Avail(mem) # 0 /\ Len(allocated) >= 2
  /\ Fat(mem, Avail(mem)) # 0

\* ----------------------------------------------------------------------- C9
\* the free chain is strictly decreasing and reaches 0 (so it has no cycle)
ChainOK(m) == StrictlyDecreasing(FreeChain(m)) /\ EndsAtZero(m, FreeChain(m))
\* C9: in every state of a build the free chain from avail is acyclic,
\* strictly decreasing and ends at 0; a step of the packing loop (which links
\* file chains through the FAT) leaves the entry of every block that is still
\* free as it was.
C9_PackKeepsFree ==
  [][pc = "loop" =>
       \A idx \in Range(FreeChain(mem')) : Fat(mem', idx) = Fat(mem, idx)]_vars
C9_FreeChain == []ChainOK(mem) /\ C9_PackKeepsFree
C9_Witness ==
  /\ pc = "loop" /\ Len(chains[Len(chains)]) >= 2
  /\ Len(FreeChain(mem)) >= 2
  /\ Fat(mem, chains[Len(chains)][1]) = chains[Len(chains)][2]

\* ---------------------------------------------------------------------- C10
\* C10: once the super block is initialised, no step increases super.avail,
\* and once the free list is built no step puts a block on it.
C10_AvailNeverGrows ==
  [][/\ pc \notin {"main", "open", "super"} => Avail(mem') <= Avail(mem)
     /\ Built => Range(FreeChain(mem')) \subseteq Range(FreeChain(mem))]_vars
C10_Witness ==
  /\ Len(allocated) >= 3 /\ Avail(mem) # 0
  /\ Avail(mem) < allocated[Len(allocated)]

\* ---------------------------------------------------------------------- C11
\* the blocks the first k files ask for by the claims' count
RECURSIVE FilesBlocks(_)
FilesBlocks(k) == IF k = 0 THEN 0 ELSE FilesBlocks(k - 1) + ClaimBlocks(files[k].size)
\* the root block and every file's blocks
RequiredBlocks == 1 + FilesBlocks(nFiles)
\* the blocks outside the super block and the FAT
FreeBlocks == nBlocks - lastAvail(nBlocks)
\* some byte of the k-th (from 0) directory entry has been stored
EntryStored(m, k) ==
  \E a \in DirEntry(m, k) .. (DirEntry(m, k) + EntrySize - 1) : a \in DOMAIN m

\* C11: a build that needs more blocks than are free (even one more) never
\* succeeds; where it stops with the disk full, the allocated blocks and the
\* metadata blocks together are at most nBlocks, the file whose packing ran
\* out of blocks has no directory entry and no length in its head block.
C11_Exhaustion ==
  /\ RequiredBlocks > FreeBlocks => pc # "done"
  /\ pc = "diskfull" =>
       /\ Len(allocated) + lastAvail(nBlocks) <= nBlocks
       /\ Len(allocated) >= 1 => ~EntryStored(mem, i)
       /\ Len(chains) > Len(heads) => ~LengthStored(mem, chains[Len(chains)][1])
\* The same for images of at least 3 blocks.
C11_FromThreeBlocks == nBlocks >= 3 => C11_Exhaustion

\* ---------------------------------------------------------------------- C12
\* the calls on the image since it was mapped
SinceMapped == SubSeq(calls, 4, Len(calls))

\* C12: a successful build has flushed the mapping (msync), then unmapped it,
\* then closed the image's descriptor, in that order; it never ends in
\* success with the flush or the close missing.
C12_Finalisation == pc = "done" => SinceMapped = <<"msync", "munmap", "close">>
\* What main does: the one call is munmap.
C12_UnmapOnly == pc = "done" => SinceMapped = <<"munmap">>

\* ---------------------------------------------------------------------- C13
\* the bytes of block b
BlockBytes(b) == toPtr(b, 0) .. (toPtr(b, BlockSize) - 1)
\* the addresses the k-th (from 0) directory entry is stored at
EntryBytes(k) == EntryAddr(rootData, k) .. (EntryAddr(rootData, k) + EntrySize - 1)

\* C13: every byte main stores for the root directory, the 8 bytes of the
\* header and the 16 bytes of each entry, is a byte of block super.root: none
\* is in another block or past the end of the image.
C13_InRootBlock ==
  pc \in {"files", "alloc", "loop", "entry", "done"} =>
    /\ (toPtr(Root(mem), 0) .. (rootData - 1)) \subseteq BlockBytes(Root(mem))
    /\ \A k \in 0 .. i - 1 :
         /\ EntryBytes(k) \subseteq BlockBytes(Root(mem))
         /\ ~OutOfImage(EntryAddr(rootData, k), EntrySize)
\* The same while the directory fits its block.
C13_WithinCapacity == nFiles <= DirCapacity => C13_InRootBlock

\* ---------------------------------------------------------------------- C14
\* getBlock has returned the root block
RootAllocated == Len(allocated) >= 1

Packed == UNION {Range(chains[k]) : k \in 1 .. Len(heads)}

\* C15: once any number of files are packed, each file's blocks are a FAT
\* chain from its head block (fat[b] is the file's next block, the last
\* block's entry is 0), the chains of two files share no block, and no chain
\* holds the root block or a block that is still on the free chain.
C15_FileChains ==
  /\ \A k \in 1 .. Len(heads) :
       /\ FileChain(mem, heads[k]) = chains[k]
       /\ \A j \in 1 .. Len(chains[k]) :
            Fat(mem, chains[k][j]) =
              IF j < Len(chains[k]) THEN chains[k][j + 1] ELSE 0
       /\ \A j \in 1 .. k - 1 : Range(chains[j]) \cap Range(chains[k]) = {}
  /\ Packed \cap ({Root(mem)} \cup Range(FreeChain(mem))) = {}
C15_Witness ==
  /\ Len(heads) = 2 /\ Len(chains[1]) = 3 /\ Len(chains[2]) = 1
  /\ Avail(mem) # 0

\* ---------------------------------------------------------------------- C16
\* C16: getBlock hands blocks out in strictly decreasing order, the first one
\* being N - 1: super.root is N - 1, the first file's head block is N - 2,
\* and the indices along every file's chain strictly decrease.
C16_Order ==
  /\ StrictlyDecreasing(allocated)
  /\ RootAllocated => (allocated[1] = nBlocks - 1 /\ Root(mem) = nBlocks - 1)
  /\ Len(chains) >= 1 => chains[1][1] = nBlocks - 2
  /\ \A k \in 1 .. Len(chains) : StrictlyDecreasing(chains[k])
  /\ \A k \in 1 .. Len(heads) : StrictlyDecreasing(FileChain(mem, heads[k]))
C16_Witness ==
  /\ Len(heads) = 2 /\ Len(chains[1]) = 3
  /\ heads[1] = nBlocks - 2 /\ heads[2] = nBlocks - 5

\* ---------------------------------------------------------------------- C17
\* how many times getBlock has returned idx
TimesAllocated(idx) == Cardinality({k \in 1 .. Len(allocated) : allocated[k] = idx})

\* C17: on an image of N >= 3 blocks, once the free list is built, every
\* index of lastAvail .. N - 1 is either on the free chain or was returned by
\* exactly one getBlock call, never both and never neither; the free and the
\* allocated blocks together are always N - lastAvail, and getBlock returns
\* no index twice.
C17_Conservation ==
  (Built /\ nBlocks >= 3) =>
    LET chain == FreeChain(mem)
        free == Range(chain)
    IN  /\ \A idx \in lastAvail(nBlocks) .. (nBlocks - 1) :
             (idx \in free) <=> (TimesAllocated(idx) = 0)
        /\ \A idx \in Range(allocated) : TimesAllocated(idx) = 1
        /\ Range(allocated) \cup free = lastAvail(nBlocks) .. (nBlocks - 1)
        /\ Len(chain) + Len(allocated) = FreeBlocks
C17_Witness ==
  /\ Built /\ nBlocks >= 3
  /\ Len(allocated) >= 3 /\ Len(FreeChain(mem)) >= 2

\* ---------------------------------------------------------------------- C18
\* C18: the free list main builds does not depend on what the image file held
\* before: over an existing file with non-zero bytes, right after the
\* initialisation the free chain still ends at 0, is strictly decreasing and
\* holds no index below lastAvail, and the FAT entries 0 .. lastAvail are 0.
C18_StaleFree ==
  (pc = "root" /\ nBlocks >= 3) =>
    LET chain == FreeChain(mem)
    IN  /\ EndsAtZero(mem, chain)
        /\ StrictlyDecreasing(chain)
        /\ \A idx \in Range(chain) : idx >= lastAvail(nBlocks)
        /\ \A k \in 0 .. lastAvail(nBlocks) : Fat(mem, k) = 0
\* What the initialisation does give over any old bytes: the entries above
\* lastAvail, so the chain's first N - 1 - lastAvail indices.
C18_StoredLinks ==
  (pc = "root" /\ nBlocks >= 3) =>
    LET chain == FreeChain(mem)
        above == nBlocks - 1 - lastAvail(nBlocks)
    IN  /\ Len(chain) >= above
        /\ SubSeq(chain, 1, above) = Desc(lastAvail(nBlocks) + 1, nBlocks - 1)

\* ---------------------------------------------------------------------- C19
\* main has returned or the process has exited (or died on a fault)
Terminated ==
  pc \in {"done", "usage", "imgfail", "srcopen", "readerr", "diskfull", "fault"}
\* at the loop's read the current block has room, and the source's offset
\* is within the source
ReadHasRoom ==
  (pc = "loop" /\ ~NeedBlock(leftInBlock)) =>
    /\ leftInBlock > 0 /\ blockOffset + leftInBlock = BlockSize
    /\ fpos <= files[i + 1].size

====
